---------------------------- MODULE Spec2Model ----------------------------
(***************************************************************************)
(* Model of the SQLite -> PostgreSQL bridge (package sqlite_postgres_bridge).*)
(*                                                                         *)
(* Part 1 (Spec, FairSpec): ConnectionManager and the callers that borrow  *)
(* connections through get_connection() from                              *)
(* VirtualTableInterface.execute_query / execute_dml.                      *)
(* ConnectionManager delegates to psycopg2.pool.ThreadedConnectionPool     *)
(* (minconn=1, maxconn=pool_size).  The operators getconn, putconn and     *)
(* closeall below follow that class: every method runs under the pool's   *)
(* lock (one atomic step), getconn raises PoolError at once when the pool  *)
(* is closed or when maxconn connections are out, putconn keeps at most    *)
(* minconn idle connections and discards closed ones, closeall closes the  *)
(* idle and the checked-out connections and sets the closed flag.          *)
(*                                                                         *)
(* Part 2 (SyncSpec): SQLitePostgreSQLBridge.initialize / _migrate_schema, *)
(* the synchronisation pass on its own psycopg2.connect() connection.      *)
(*                                                                         *)
(* Part 3 (ParSpec): initialize() called by several threads at once.       *)
(*                                                                         *)
(* Part 4 (BridgeSpec): statements going through the bridge's              *)
(* execute_query / execute_dml (CREATE TABLE interception, replication,    *)
(* normal execution) and VirtualTableInterface.create_virtual_table.       *)
(* Statements are sequences of pieces of text, so that strip, upper,       *)
(* startswith and replace act on them as they act on strings.              *)
(*                                                                         *)
(* Part 5 (PureSpec): the library's functions, one call at a time:         *)
(* _convert_sqlite_to_postgres, _map_pg_type_to_sqlite, the rows           *)
(* execute_query builds from a result set, DataMapper.map_results.         *)
(*                                                                         *)
(* Part 6 (TranslateSpec): QueryTranslator.translate calls with            *)
(* registrations and the closing of the pool between them.                 *)
(*                                                                         *)
(* Part 7 (HealthSpec): ConnectionManager.test_connection on the pool of   *)
(* part 1.                                                                 *)
(*                                                                         *)
(* Part 8 (LifeSpec): one SQLitePostgreSQLBridge from construction to      *)
(* close(): its own ConnectionManager of connection_pool_size, the pool of *)
(* its VirtualTableInterface (default size) that the statements use, the   *)
(* psycopg2.connect() connections of CREATE TABLE replication.             *)
(*                                                                         *)
(* Part 9 (StatementSpec): the callers of part 1 whose statement is first  *)
(* translated, so that translate may raise before get_connection().        *)
(***************************************************************************)
EXTENDS Integers, Sequences, FiniteSets, TLC

\* ------------------------------------------------------------------ bounds
\* Number of caller threads using one ConnectionManager.
NumCallers == 2

\* The largest capacity the model configures (pool_size ranges over 1..MaxPoolSize).
MaxPoolSize == 2

\* ThreadedConnectionPool(minconn=1, ...)
minconn == 1

Callers == 1..NumCallers

\* ConnectionManager.__init__(connection_string, pool_size: int = 5)
DefaultPoolSize == 5

\* The largest pool_size a manager is constructed with.
LargestPool == IF MaxPoolSize > DefaultPoolSize THEN MaxPoolSize ELSE DefaultPoolSize

\* Identities of connection objects.  A discarded object's identity is reused
\* for a later new connection; at most pool_size objects are live at once.
Conns == 1..(LargestPool + 1)

\* get_connection: conn = None
None == 0

\* Number of threads that may call initialize() on bridges of one backend.
NumSyncers == 2

Syncers == 1..NumSyncers

\* Number of table names the embedded store and the backend range over.
NumTables == 2

\* The largest number of rows a table holds before a synchronisation pass.
MaxRows == 1

Tables == 1..NumTables

VARIABLES
    pool_size,    \* ConnectionManager.pool_size, the pool's maxconn
    closed,       \* connection_pool.closed
    idle,         \* connection_pool._pool: the idle connections (a list)
    used,         \* connection_pool._used: the checked-out connections
    connClosed,   \* conn.closed # 0, per connection object
    connStatus,   \* conn.info.transaction_status, per connection object
    pc,           \* per caller: where it is in execute_query / execute_dml
    held,         \* per caller: the local variable conn of get_connection
    err,          \* per caller: the exception in flight ("none" when none)
    orig,         \* per caller: the first exception the with-body raised
    trace,        \* per caller: get_connection's steps after acquisition
    sqlite_master,   \* embedded catalog, per table name: present, rows, ddl
    pg_tables,       \* backend (committed), per table name: exists, rows
    pg_conn,         \* _migrate_schema's own connection and its transaction
    pg_view,         \* the backend tables as pg_conn's transaction sees them
    sync_pc,         \* where initialize / _migrate_schema is
    cursor,          \* the table name the running for loop is at
    existing_tables, \* _migrate_schema's existing_tables not yet dropped
    dropped,         \* tables the running pass issued DROP TABLE for
    migrated,        \* tables whose CREATE TABLE the running pass executed
    attempted,       \* tables the running pass issued an INSERT for
    prev,            \* how the pass before the running one ended, if any
    runs,            \* per thread calling initialize(): where its pass is
    query,           \* the statement given to the bridge's execute_query / execute_dml
    via,             \* which of the two was called
    bridge_pc,       \* where that call is
    route,           \* the paths the statement was sent through, in order
    bridge_err,      \* the exception the call raises to its caller ("none" when none)
    before,          \* the backend's tables when the call began
    relations,       \* the backend's tables (committed), by name
    virtual_tables,  \* VirtualTableInterface.virtual_tables
    registered,      \* what the last create_virtual_table call returned
    reg_call,        \* the last create_virtual_table call: by whom, its arguments
    returned,        \* the kind of value the call returns ("none": nothing yet)
    conv,            \* the last _convert_sqlite_to_postgres call: input, output
    typed,           \* the last _map_pg_type_to_sqlite call: input, output
    trip,            \* the last type name taken to the backend and back
    fetched,         \* the last result set execute_query turned into rows
    mapped,          \* the last map_results call: input, output, error
    tlog,            \* the operations on one bridge so far, oldest first
    healthy,         \* what test_connection last returned to each caller
    committed,       \* the running call's statement was committed on its connection
    initialized,     \* what initialize() returned ("none": it has not returned)
    connection_pool_size,  \* the size the bridge was constructed with
    own_closed,      \* the bridge's own pool (self.connection_manager) is closed
    close_called,    \* bridge.close() has returned
    direct,          \* psycopg2.connect() connections of replications, open now
    late             \* a statement obtained a connection after close() returned

poolVars == <<pool_size, closed, idle, used, connClosed, connStatus>>
callerVars == <<pc, held, err, orig, trace>>
syncVars == <<sqlite_master, pg_tables, pg_conn, pg_view, sync_pc, cursor,
              existing_tables, dropped, migrated, attempted, prev>>
parVars == <<runs>>
bridgeVars == <<query, via, bridge_pc, route, bridge_err, before, relations,
                virtual_tables, registered, reg_call, returned, committed>>
pureVars == <<conv, typed, trip, fetched, mapped>>
transVars == <<tlog>>
healthVars == <<healthy>>
initVars == <<initialized>>
lifeVars == <<connection_pool_size, own_closed, close_called, direct, late>>
libVars == <<pureVars, transVars, healthVars, initVars, lifeVars>>
vars == <<pool_size, closed, idle, used, connClosed, connStatus, pc, held, err, orig, trace,
          sqlite_master, pg_tables, pg_conn, pg_view, sync_pc, cursor,
          existing_tables, dropped, migrated, attempted, prev, runs,
          query, via, bridge_pc, route, bridge_err, before, relations,
          virtual_tables, registered, reg_call, returned,
          conv, typed, trip, fetched, mapped, tlog, healthy,
          committed, initialized, connection_pool_size, own_closed, close_called,
          direct, late>>

\* Live connection objects: the pool's idle list and its used map.
Range(s) == {s[i] : i \in 1..Len(s)}
Live == Range(idle) \cup used

\* ----------------------------------------------------------- construction
\* ConnectionManager.__init__ -> _create_pool: the pool opens minconn
\* connections into its idle list; nothing is checked out.
PoolFresh ==
    /\ closed = FALSE
    /\ idle = [i \in 1..minconn |-> i]
    /\ used = {}
    /\ connClosed = [c \in Conns |-> FALSE]
    /\ connStatus = [c \in Conns |-> "IDLE"]
    /\ pc = [t \in Callers |-> "idle"]
    /\ held = [t \in Callers |-> None]
    /\ err = [t \in Callers |-> "none"]
    /\ orig = [t \in Callers |-> "none"]
    /\ trace = [t \in Callers |-> <<>>]

\* A ConnectionManager constructed with some pool_size.
PoolInit == pool_size \in 1..MaxPoolSize /\ PoolFresh

\* ------------------------------------------------- the pool (getconn side)
\* The identity of a newly opened connection object: one no live object has.
FreshConn == CHOOSE c \in Conns \ Live : \A d \in Conns \ Live : c <= d

\* getconn: "if len(self._used) == self.maxconn: raise PoolError(exhausted)",
\* with maxconn = pool_size (_create_pool).
ExhaustedOffByOne == Cardinality(used) = pool_size + 1
Exhausted == Cardinality(used) = pool_size

\* getconn: "conn = self._pool.pop()": the idle list after the pop.
PoolKeepsPopped == idle
PoolAfterPop == SubSeq(idle, 1, Len(idle) - 1)

\* conn = self.connection_pool.getconn(), as caller t's step.  Four outcomes:
\* PoolError (closed), an idle connection popped, PoolError (exhausted), or
\* a new connection opened (which fails when the backend is unreachable).
\* A failure leaves conn = None and enters the except clause.
getconn(t) ==
    /\ pc[t] = "getconn"
    /\ IF closed
         THEN /\ err' = [err EXCEPT ![t] = "getconn:PoolError(closed)"]
              /\ pc' = [pc EXCEPT ![t] = "except"]
              /\ UNCHANGED <<poolVars, held>>
       ELSE IF idle # <<>>
         THEN /\ idle' = PoolAfterPop
              /\ used' = used \cup {idle[Len(idle)]}
              /\ held' = [held EXCEPT ![t] = idle[Len(idle)]]
              /\ pc' = [pc EXCEPT ![t] = "execute"]
              /\ UNCHANGED <<pool_size, closed, connClosed, connStatus, err>>
       ELSE IF Exhausted
         THEN /\ err' = [err EXCEPT ![t] = "getconn:PoolError(exhausted)"]
              /\ pc' = [pc EXCEPT ![t] = "except"]
              /\ UNCHANGED <<poolVars, held>>
       ELSE \/ /\ used' = used \cup {FreshConn}
               /\ connClosed' = [connClosed EXCEPT ![FreshConn] = FALSE]
               /\ connStatus' = [connStatus EXCEPT ![FreshConn] = "IDLE"]
               /\ held' = [held EXCEPT ![t] = FreshConn]
               /\ pc' = [pc EXCEPT ![t] = "execute"]
               /\ UNCHANGED <<pool_size, closed, idle, err>>
            \/ /\ err' = [err EXCEPT ![t] = "connect:OperationalError"]
               /\ pc' = [pc EXCEPT ![t] = "except"]
               /\ UNCHANGED <<poolVars, held>>
    /\ UNCHANGED <<orig, trace>>

\* ---------------------------------------------------------- the callers
\* VirtualTableInterface.execute_query / execute_dml entered by caller t: the
\* statement is translated and get_connection() is entered with conn = None.
\* The two functions run the same code up to cursor.execute().
Call(t) ==
    /\ pc[t] = "idle"
    /\ pc' = [pc EXCEPT ![t] = "getconn"]
    /\ UNCHANGED <<poolVars, held, err, orig, trace>>

\* The with-body raised e on caller t: control enters get_connection's
\* "except Exception" clause.
Raise(t, e) ==
    /\ err' = [err EXCEPT ![t] = e]
    /\ orig' = [orig EXCEPT ![t] = e]
    /\ trace' = [trace EXCEPT ![t] = Append(@, "fail")]
    /\ pc' = [pc EXCEPT ![t] = "except"]

\* A backend operation found the server connection gone: psycopg2 raises
\* OperationalError and marks the connection object closed.
Lost(c) ==
    /\ connClosed' = [connClosed EXCEPT ![c] = TRUE]
    /\ connStatus' = [connStatus EXCEPT ![c] = "UNKNOWN"]

\* cursor = conn.cursor(); cursor.execute(postgres_query, params) by caller t,
\* going on to `after` when the statement ran.  On a connection object that is
\* already closed the cursor call raises InterfaceError.  Otherwise the
\* statement runs (a transaction is now open), the backend rejects it (the
\* transaction is in error), or the connection is lost.
CursorExecute(t, after) ==
    /\ pc[t] = "execute"
    /\ IF connClosed[held[t]]
         THEN /\ Raise(t, "InterfaceError")
              /\ UNCHANGED <<connClosed, connStatus>>
         ELSE \/ /\ connStatus' = [connStatus EXCEPT ![held[t]] = "INTRANS"]
                 /\ pc' = [pc EXCEPT ![t] = after]
                 /\ UNCHANGED <<connClosed, err, orig, trace>>
              \/ /\ connStatus' = [connStatus EXCEPT ![held[t]] = "INERROR"]
                 /\ Raise(t, "DatabaseError")
                 /\ UNCHANGED connClosed
              \/ /\ Lost(held[t])
                 /\ Raise(t, "OperationalError")
    /\ UNCHANGED <<pool_size, closed, idle, used, held>>

\* execute_query's with-body: execute, build the result, return it.  There is
\* no commit: the with statement is left with the transaction open.
ExecuteQuery(t) == CursorExecute(t, "finally")

\* execute_dml's with-body up to the commit.
ExecuteDml(t) == CursorExecute(t, "commit")

\* execute_dml: conn.commit().
Commit(t) ==
    /\ pc[t] = "commit"
    /\ IF connClosed[held[t]]
         THEN /\ Raise(t, "InterfaceError")
              /\ UNCHANGED <<connClosed, connStatus>>
         ELSE \/ /\ connStatus' = [connStatus EXCEPT ![held[t]] = "IDLE"]
                 /\ pc' = [pc EXCEPT ![t] = "finally"]
                 /\ UNCHANGED <<connClosed, err, orig, trace>>
              \/ /\ Lost(held[t])
                 /\ Raise(t, "OperationalError")
    /\ UNCHANGED <<pool_size, closed, idle, used, held>>

\* get_connection, except clause: "if conn: conn.rollback()".
RollbackSkipped(t) == FALSE
RollbackNeeded(t) == held[t] # None

\* get_connection: "except Exception as e: if conn: conn.rollback(); log;
\* raise".  An exception raised by rollback() itself replaces the one in
\* flight; either way control goes on to the finally clause.
Except(t) ==
    /\ pc[t] = "except"
    /\ pc' = [pc EXCEPT ![t] = "finally"]
    /\ IF RollbackNeeded(t)
         THEN /\ trace' = [trace EXCEPT ![t] = Append(@, "rollback")]
              /\ IF connClosed[held[t]]
                   THEN /\ err' = [err EXCEPT ![t] = "rollback:InterfaceError"]
                        /\ UNCHANGED <<connClosed, connStatus>>
                   ELSE \/ /\ connStatus' = [connStatus EXCEPT ![held[t]] = "IDLE"]
                           /\ UNCHANGED <<connClosed, err>>
                        \/ /\ Lost(held[t])
                           /\ err' = [err EXCEPT ![t] = "rollback:OperationalError"]
         ELSE UNCHANGED <<connClosed, connStatus, err, trace>>
    /\ UNCHANGED <<pool_size, closed, idle, used, held, orig>>

\* ------------------------------------------------- the pool (putconn side)
\* get_connection, finally clause: "if conn: self.connection_pool.putconn(conn)".
ReleaseOnSuccessOnly(t) == held[t] # None /\ err[t] = "none"
ReleaseNeeded(t) == held[t] # None

\* putconn: a connection goes back to the idle list only when it is open
\* ("if not conn.closed") and its server connection is not known to be lost
\* (transaction status UNKNOWN); otherwise it is closed and dropped.
ReusableAlways(c) == TRUE
Reusable(c) == ~connClosed[c] /\ connStatus[c] # "UNKNOWN"

\* putconn's bookkeeping once the connection c is settled: c leaves the used
\* map; kept, it is appended to the idle list; dropped, its object is gone.
PutAway(c, keep) ==
    /\ used' = used \ {c}
    /\ idle' = IF keep THEN Append(idle, c) ELSE idle
    /\ connClosed' = [connClosed EXCEPT ![c] = FALSE]
    /\ connStatus' = [connStatus EXCEPT ![c] = "IDLE"]

\* self.connection_pool.putconn(conn) for caller t holding c.  A closed pool
\* raises PoolError before touching anything.  With fewer than minconn idle
\* connections a reusable connection is kept, after a rollback when its
\* transaction is open or in error (a rollback that finds the connection lost
\* raises, and putconn ends before it removes c from the used map).  In every
\* other case the connection is closed and dropped.
putconn(t, c) ==
    IF closed
      THEN /\ err' = [err EXCEPT ![t] = "putconn:PoolError(closed)"]
           /\ UNCHANGED poolVars
    ELSE IF Len(idle) < minconn /\ Reusable(c)
      THEN IF connStatus[c] # "IDLE"
             THEN \/ /\ PutAway(c, TRUE)
                     /\ UNCHANGED <<pool_size, closed, err>>
                  \/ /\ Lost(c)
                     /\ err' = [err EXCEPT ![t] = "putconn:OperationalError"]
                     /\ UNCHANGED <<pool_size, closed, idle, used>>
             ELSE /\ PutAway(c, TRUE)
                  /\ UNCHANGED <<pool_size, closed, err>>
    ELSE /\ PutAway(c, FALSE)
         /\ UNCHANGED <<pool_size, closed, err>>

\* get_connection's finally clause as caller t's step; afterwards the with
\* statement is left, with the exception in flight (if any) still raised.
Finally(t) ==
    /\ pc[t] = "finally"
    /\ pc' = [pc EXCEPT ![t] = "done"]
    /\ held' = [held EXCEPT ![t] = None]
    /\ IF ReleaseNeeded(t)
         THEN /\ trace' = [trace EXCEPT ![t] = Append(@, "release")]
              /\ putconn(t, held[t])
         ELSE UNCHANGED <<poolVars, err, trace>>
    /\ UNCHANGED orig

\* execute_query / execute_dml return to (or log and re-raise the exception
\* to) caller t, which is then free to issue its next statement.
Return(t) ==
    /\ pc[t] = "done"
    /\ pc' = [pc EXCEPT ![t] = "idle"]
    /\ err' = [err EXCEPT ![t] = "none"]
    /\ orig' = [orig EXCEPT ![t] = "none"]
    /\ trace' = [trace EXCEPT ![t] = <<>>]
    /\ UNCHANGED <<poolVars, held>>

\* closeall: "for conn in self._pool + list(self._used.values()): conn.close()".
ClosesIdleOnly == Range(idle)
ClosedByCloseall == Range(idle) \cup used

\* ConnectionManager.close(): "if self.connection_pool: closeall()".  On a
\* pool already closed closeall raises PoolError and changes nothing.
Close ==
    IF closed
      THEN UNCHANGED <<poolVars, callerVars>>
      ELSE /\ closed' = TRUE
           /\ connClosed' = [c \in Conns |-> connClosed[c] \/ c \in ClosedByCloseall]
           /\ connStatus' = [c \in Conns |->
                               IF c \in ClosedByCloseall THEN "UNKNOWN" ELSE connStatus[c]]
           /\ UNCHANGED <<pool_size, idle, used, callerVars>>

\* ------------------------------------------------- synchronisation pass
\* A table name the embedded catalog does not hold / the backend does not have.
NoTable == [exists |-> FALSE, rows |-> 0]
NoEmbedded == [present |-> FALSE, rows |-> 0, ddl |-> "ok"]

\* What sqlite_master can say of a table name.  ddl is what becomes of the
\* table's CREATE statement: "ok" (converted, and the backend accepts it),
\* "unconvertible" (_convert_sqlite_to_postgres returns "") or "rejected"
\* (converted, but the backend raises on it).
EmbeddedTable ==
    {NoEmbedded} \cup
    {[present |-> TRUE, rows |-> r, ddl |-> d] :
        r \in 0..MaxRows, d \in {"ok", "unconvertible", "rejected"}}

BackendTable == {NoTable} \cup {[exists |-> TRUE, rows |-> r] : r \in 0..MaxRows}

\* The embedded store's system table (sqlite_sequence): it is in the catalog
\* of every store the model starts from and matches the pattern 'sqlite_%'.
sqlite_sequence == 0

\* The rows of sqlite_master with type = 'table'.
CatalogTables == {t \in Tables : sqlite_master[t].present} \cup {sqlite_sequence}

\* A catalog filter that lets the system tables through.
UserTablesUnfiltered == CatalogTables

\* "SELECT ... FROM sqlite_master WHERE type='table' AND name NOT LIKE 'sqlite_%'"
UserTables == {t \in CatalogTables : t # sqlite_sequence}

\* initialize: "SELECT COUNT(*) FROM sqlite_master WHERE ..."; fetchone()[0]
table_count == Cardinality(UserTables)

\* The user tables a for loop over the catalog has still to visit, in catalog
\* order, and the one it is at.
Pending == {t \in UserTables : t >= cursor}
Current == CHOOSE t \in Pending : \A u \in Pending : t <= u
First(S) == CHOOSE t \in S : \A u \in S : t <= u

\* SQLitePostgreSQLBridge.__init__(sqlite_conn, postgres_url,
\* connection_pool_size): the configuration has no schema-ownership flag, so
\* the flag is off for every bridge.
schema_ownership == FALSE

\* No pass has ended yet.
NoPrev == [ran |-> FALSE, conn |-> "none", tables |-> [t \in Tables |-> NoTable]]

\* A bridge constructed over some embedded store and some backend; no pass has
\* run yet.
SyncInit ==
    /\ sqlite_master \in [Tables -> EmbeddedTable]
    /\ pg_tables \in [Tables -> BackendTable]
    /\ pg_conn = "none"
    /\ pg_view = pg_tables
    /\ sync_pc = "idle"
    /\ cursor = 1
    /\ existing_tables = {}
    /\ dropped = {}
    /\ migrated = {}
    /\ attempted = {}
    /\ prev = NoPrev

\* initialize(): count the user tables of the embedded store; with none, log
\* and return True; otherwise call _migrate_schema, which reads the catalog
\* and goes on to connect.  (self.connection_manager.get_connection() only
\* builds a context manager that is never entered: no connection is taken.)
Initialize ==
    /\ sync_pc \in {"idle", "done"}
    /\ sync_pc' = IF table_count > 0 /\ UserTables # {} THEN "connect" ELSE "done"
    /\ pg_conn' = "none"
    /\ pg_view' = pg_tables
    /\ cursor' = 1
    /\ existing_tables' = {}
    /\ dropped' = {}
    /\ migrated' = {}
    /\ attempted' = {}
    /\ prev' = IF sync_pc = "done"
                THEN [ran |-> TRUE, conn |-> pg_conn, tables |-> pg_tables]
                ELSE prev
    /\ UNCHANGED <<sqlite_master, pg_tables>>

\* _migrate_schema, outer "except Exception": the error is logged and the
\* function returns; pg_conn is neither committed nor closed.
Abandon ==
    /\ sync_pc' = "done"
    /\ pg_conn' = IF pg_conn = "none" THEN "none" ELSE "abandoned"
    /\ UNCHANGED <<sqlite_master, pg_tables, pg_view, cursor, existing_tables,
                   dropped, migrated, attempted, prev>>

\* pg_conn = psycopg2.connect(self.postgres_url); pg_cursor = pg_conn.cursor()
Connect ==
    /\ sync_pc = "connect"
    /\ \/ /\ pg_conn' = "idle"
          /\ pg_view' = pg_tables
          /\ sync_pc' = "list"
          /\ UNCHANGED <<sqlite_master, pg_tables, cursor, existing_tables,
                         dropped, migrated, attempted, prev>>
       \/ Abandon

\* "SELECT tablename FROM pg_tables WHERE schemaname = 'public'"; fetchall().
\* The statement opens pg_conn's transaction.
ListTables ==
    /\ sync_pc = "list"
    /\ existing_tables' = {t \in Tables : pg_view[t].exists}
    /\ sync_pc' = "drop"
    /\ pg_conn' = "open"
    /\ UNCHANGED <<sqlite_master, pg_tables, pg_view, cursor, dropped, migrated,
                   attempted, prev>>

\* A pass that leaves the backend's tables in place.
DropsNothing == {}

\* _migrate_schema: "for (table,) in existing_tables: DROP TABLE IF EXISTS ...
\* CASCADE": the tables the pass drops are all the backend's tables.
TablesToDrop == existing_tables

\* One DROP TABLE of the loop, or the end of the loop.  A statement that raises
\* here is outside every inner try: the outer except clause ends the pass.
Drop ==
    /\ sync_pc = "drop"
    /\ IF TablesToDrop = {}
         THEN /\ sync_pc' = "create"
              /\ existing_tables' = {}
              /\ UNCHANGED <<sqlite_master, pg_tables, pg_conn, pg_view, cursor,
                             dropped, migrated, attempted, prev>>
         ELSE \/ /\ pg_view' = [pg_view EXCEPT ![First(TablesToDrop)] = NoTable]
                 /\ dropped' = dropped \cup {First(TablesToDrop)}
                 /\ existing_tables' = existing_tables \ {First(TablesToDrop)}
                 /\ UNCHANGED <<sqlite_master, pg_tables, pg_conn, sync_pc, cursor,
                                migrated, attempted, prev>>
              \/ Abandon

\* The for loop at `cursor` moves on to the next table, or to the next phase.
Advance(nextPhase) ==
    /\ cursor' = IF \E t \in Pending : t > Current THEN Current + 1 ELSE 1
    /\ sync_pc' = IF \E t \in Pending : t > Current THEN sync_pc ELSE nextPhase

\* One round of "for (sql,) in table_schemas": convert the CREATE statement
\* and, if the conversion gave one, execute it inside try/except.  A statement
\* the backend rejects, and any statement after that, leaves the transaction
\* aborted; the except clause logs and the loop goes on.
Create ==
    /\ sync_pc = "create"
    /\ Advance("copy")
    /\ IF sqlite_master[Current].ddl = "unconvertible"
         THEN UNCHANGED <<pg_conn, pg_view, migrated>>
       ELSE IF pg_conn = "aborted"
         THEN UNCHANGED <<pg_conn, pg_view, migrated>>
       ELSE IF sqlite_master[Current].ddl = "rejected"
         THEN /\ pg_conn' = "aborted"
              /\ UNCHANGED <<pg_view, migrated>>
       ELSE /\ pg_view' = IF pg_view[Current].exists THEN pg_view
                          ELSE [pg_view EXCEPT ![Current] = [exists |-> TRUE, rows |-> 0]]
            /\ migrated' = migrated \cup {Current}
            /\ UNCHANGED pg_conn
    /\ UNCHANGED <<sqlite_master, pg_tables, existing_tables, dropped, attempted, prev>>

\* One round of "for (table_name,) in tables": read the embedded rows and, if
\* there are any, executemany the INSERT, inside try/except.  The INSERT raises
\* in an aborted transaction and on a table the backend does not have (which
\* aborts the transaction).
Copy ==
    /\ sync_pc = "copy"
    /\ Advance("commit")
    /\ attempted' = IF sqlite_master[Current].rows > 0
                     THEN attempted \cup {Current} ELSE attempted
    /\ IF sqlite_master[Current].rows = 0 \/ pg_conn = "aborted"
         THEN UNCHANGED <<pg_conn, pg_view>>
       ELSE IF ~pg_view[Current].exists
         THEN /\ pg_conn' = "aborted"
              /\ UNCHANGED pg_view
       ELSE /\ pg_view' = [pg_view EXCEPT ![Current].rows = @ + sqlite_master[Current].rows]
            /\ UNCHANGED pg_conn
    /\ UNCHANGED <<sqlite_master, pg_tables, existing_tables, dropped, migrated, prev>>

\* pg_conn.commit(); pg_conn.close().  The commit of an aborted transaction is
\* a rollback (pg_conn then ends "rolledback", otherwise "closed").  A commit
\* that raises goes to the outer except clause.
Commit_pg ==
    /\ sync_pc = "commit"
    /\ \/ /\ pg_tables' = IF pg_conn = "aborted" THEN pg_tables ELSE pg_view
          /\ pg_view' = pg_tables'
          /\ pg_conn' = IF pg_conn = "aborted" THEN "rolledback" ELSE "closed"
          /\ sync_pc' = "done"
          /\ UNCHANGED <<sqlite_master, cursor, existing_tables, dropped, migrated,
                         attempted, prev>>
       \/ Abandon

\* ------------------------------------------- passes started concurrently
\* initialize() and _migrate_schema as run by several threads: each thread has
\* its own locals and its own psycopg2.connect() connection; the code holds no
\* lock and keeps no "pass in progress" flag.
NoRun == [pc |-> "idle", at |-> 1]

\* The embedded stores the concurrent passes are run over: tables without rows
\* whose CREATE statements convert and are accepted.
PlainTable == {NoEmbedded, [present |-> TRUE, rows |-> 0, ddl |-> "ok"]}

\* The user tables thread s's for loop has still to visit.
RunPending(s) == {t \in UserTables : t >= runs[s].at}

\* Thread s calls initialize(): with user tables in the catalog it enters
\* _migrate_schema, whatever the other threads are doing.
ConcurrentInitialize(s) ==
    /\ runs[s].pc \in {"idle", "done"}
    /\ runs' = [runs EXCEPT ![s] =
                   IF table_count > 0 /\ UserTables # {}
                   THEN [pc |-> "connect", at |-> 1] ELSE [pc |-> "done", at |-> 1]]
    /\ UNCHANGED <<sqlite_master, pg_tables, pg_conn, pg_view, sync_pc, cursor,
                   existing_tables, dropped, migrated, attempted, prev>>

\* Where thread s's pass is after its next statement: connect, list and drop
\* the backend tables, one CREATE per table, one copy per table, commit.
RunAfterStatement(s) ==
    LET r == runs[s]
        more == \E t \in RunPending(s) : t > First(RunPending(s))
    IN  CASE r.pc = "connect" -> [pc |-> "drop", at |-> 1]
          [] r.pc = "drop" -> [pc |-> "create", at |-> 1]
          [] r.pc = "create" ->
                 IF more THEN [pc |-> "create", at |-> First(RunPending(s)) + 1]
                 ELSE [pc |-> "copy", at |-> 1]
          [] r.pc = "copy" ->
                 IF more THEN [pc |-> "copy", at |-> First(RunPending(s)) + 1]
                 ELSE [pc |-> "commit", at |-> 1]
          [] OTHER -> [pc |-> "done", at |-> 1]

\* Thread s's pass executes its next statement, or ends in the outer except
\* clause.
ConcurrentMigrateStep(s) ==
    /\ runs[s].pc \notin {"idle", "done"}
    /\ \/ runs' = [runs EXCEPT ![s] = RunAfterStatement(s)]
       \/ runs' = [runs EXCEPT ![s] = [pc |-> "done", at |-> 1]]
    /\ UNCHANGED <<sqlite_master, pg_tables, pg_conn, pg_view, sync_pc, cursor,
                   existing_tables, dropped, migrated, attempted, prev>>

\* ------------------------------------------------ statements as text
\* A statement is a sequence of pieces of text; two adjacent pieces that are
\* not white space read as one word ("TABLE" followed by "SPACE" is the word
\* TABLESPACE).
Whitespace == {" ", "TAB"}

\* str.upper(), piece by piece.
Upper(c) ==
    CASE c = "create" -> "CREATE" [] c = "Create" -> "CREATE"
      [] c = "table" -> "TABLE" [] c = "Table" -> "TABLE"
      [] c = "if" -> "IF" [] c = "not" -> "NOT" [] c = "exists" -> "EXISTS"
      [] OTHER -> c
upper(q) == [i \in 1..Len(q) |-> Upper(q[i])]

\* str.lstrip(), str.rstrip(), str.strip()
RECURSIVE lstrip(_)
lstrip(q) == IF q # <<>> /\ Head(q) \in Whitespace THEN lstrip(Tail(q)) ELSE q

RECURSIVE rstrip(_)
rstrip(q) ==
    IF q # <<>> /\ q[Len(q)] \in Whitespace THEN rstrip(SubSeq(q, 1, Len(q) - 1)) ELSE q

strip(q) == rstrip(lstrip(q))

\* str.startswith(p), str.endswith(p), "p in q"
startswith(q, p) == Len(q) >= Len(p) /\ SubSeq(q, 1, Len(p)) = p
endswith(q, p) == Len(q) >= Len(p) /\ SubSeq(q, Len(q) - Len(p) + 1, Len(q)) = p
Occurrences(q, p) == {i \in 1..(Len(q) - Len(p) + 1) : SubSeq(q, i, i + Len(p) - 1) = p}
Contains(q, p) == Occurrences(q, p) # {}

\* str.replace(old, new, count): the first count occurrences, all of them when
\* count is negative.
RECURSIVE replace(_, _, _, _)
replace(q, old, new, count) ==
    IF count = 0 \/ ~Contains(q, old) THEN q
    ELSE LET i == First(Occurrences(q, old))
         IN  SubSeq(q, 1, i - 1) \o new \o
             replace(SubSeq(q, i + Len(old), Len(q)), old, new, count - 1)

CREATE_TABLE == <<"CREATE", " ", "TABLE">>
IF_NOT_EXISTS == <<"IF", " ", "NOT", " ", "EXISTS">>

\* SQLitePostgreSQLBridge._convert_sqlite_to_postgres; <<>> is "".
convert_sqlite_to_postgres(sqlite_sql) ==
    IF sqlite_sql = <<>> \/ strip(sqlite_sql) = <<>> THEN <<>>
    ELSE IF ~startswith(upper(sqlite_sql), CREATE_TABLE) THEN <<>>
    ELSE LET a == replace(sqlite_sql,
                          <<"INTEGER", " ", "PRIMARY", " ", "KEY", " ", "AUTOINCREMENT">>,
                          <<"SERIAL", " ", "PRIMARY", " ", "KEY">>, -1)
             b == replace(a, <<"INTEGER", " ", "PRIMARY", " ", "KEY">>,
                          <<"SERIAL", " ", "PRIMARY", " ", "KEY">>, -1)
             c == replace(b, <<"AUTOINCREMENT">>, <<>>, -1)
             d == replace(c, <<"BLOB">>, <<"BYTEA">>, -1)
             e == IF ~Contains(upper(d), IF_NOT_EXISTS)
                  THEN replace(d, CREATE_TABLE, CREATE_TABLE \o <<" ">> \o IF_NOT_EXISTS, 1)
                  ELSE d
         IN  IF ~endswith(strip(e), <<";">>) /\ ~endswith(strip(e), <<")">>)
             THEN rstrip(e) \o <<";">>
             ELSE e

\* A translator that consults the registry: a registered table's name is
\* replaced by the name of its backend table.
TranslateRegistered(q) ==
    [i \in 1..Len(q) |->
        IF q[i] \in {"t1", "t2"} /\ virtual_tables[q[i]].created
        THEN virtual_tables[q[i]].postgres_table
        ELSE q[i]]

\* QueryTranslator.translate: sqlparse.parse(query)[0] rendered back to text,
\* the text of the first statement.  (On the empty string parse() gives no
\* statement and the index raises.)
translate(q) ==
    IF Contains(q, <<";">>) THEN SubSeq(q, 1, First(Occurrences(q, <<";">>))) ELSE q

\* ------------------------------------------------------------ the backend
TableNames == {"t1", "t2"}

\* The words of a statement as the backend's parser reads it.
Delimiters == Whitespace \cup {";", "(", ")"}

RECURSIVE Words(_)
Words(q) ==
    IF q = <<>> THEN <<>>
    ELSE IF Head(q) \in Delimiters THEN Words(Tail(q))
    ELSE LET n == CHOOSE n \in 1..Len(q) :
                      /\ \A i \in 1..n : q[i] \notin Delimiters
                      /\ n = Len(q) \/ q[n + 1] \in Delimiters
         IN  <<SubSeq(q, 1, n)>> \o Words(SubSeq(q, n + 1, Len(q)))

\* The statement is a CREATE TABLE statement: its first two key words, in any
\* letter case and with any white space around them, are CREATE and TABLE.
IsCreateTable(q) ==
    LET w == Words(upper(q))
    IN  Len(w) >= 3 /\ w[1] = <<"CREATE">> /\ w[2] = <<"TABLE">>

HasIfNotExists(q) ==
    LET w == Words(upper(q))
    IN  Len(w) >= 6 /\ SubSeq(w, 3, 5) = << <<"IF">>, <<"NOT">>, <<"EXISTS">> >>

\* The word where a CREATE TABLE statement has its table name.
CreatedTable(q) ==
    LET w == Words(upper(q))
    IN  IF HasIfNotExists(q) THEN w[6] ELSE w[3]

\* The word where a statement of n key words has its table name.
NamedAfter(q, n) == Words(upper(q))[n + 1]

\* Whether the backend has the table a word names ("SyntaxError" when the word
\* is not a table name).
Lookup(word, rels) ==
    IF Len(word) # 1 \/ word[1] \notin TableNames THEN "SyntaxError"
    ELSE IF word[1] \in rels THEN "exists" ELSE "absent"

\* The backend executes statement q in a transaction that sees the tables
\* rels: the error it raises ("none" when none) and the tables afterwards.
PgExecute(q, rels) ==
    LET w == Words(upper(q))
    IN  IF IsCreateTable(q)
        THEN LET found == Lookup(CreatedTable(q), rels)
             IN  IF found = "SyntaxError" THEN [err |-> "SyntaxError", rels |-> rels]
                 ELSE IF found = "absent"
                      THEN [err |-> "none", rels |-> rels \cup {CreatedTable(q)[1]}]
                 ELSE IF HasIfNotExists(q) THEN [err |-> "none", rels |-> rels]
                 ELSE [err |-> "DuplicateTable", rels |-> rels]
        ELSE IF Len(w) >= 4 /\ SubSeq(w, 1, 3) = << <<"SELECT">>, <<"*">>, <<"FROM">> >>
        THEN [err |-> IF Lookup(NamedAfter(q, 3), rels) = "exists" THEN "none"
                      ELSE "UndefinedTable",
              rels |-> rels]
        ELSE IF Len(w) >= 3 /\ SubSeq(w, 1, 2) = << <<"DELETE">>, <<"FROM">> >>
        THEN [err |-> IF Lookup(NamedAfter(q, 2), rels) = "exists" THEN "none"
                      ELSE "UndefinedTable",
              rels |-> rels]
        ELSE [err |-> "SyntaxError", rels |-> rels]

\* ------------------------------------------------- the bridge's statements
\* The statements callers submit.
ColumnList == <<"(", "c", " ", "BLOB", ")">>

Statements ==
    {
      <<"CREATE", " ", "TABLE", " ", "t1", " ">> \o ColumnList,
      <<"CREATE", " ", "TABLE", " ", "t2", " ">> \o ColumnList,
      <<"CREATE", " ", "TABLE", " ", "IF", " ", "NOT", " ", "EXISTS", " ", "t1", " ">>
          \o ColumnList,
      <<"create", " ", "table", " ", "t1", " ">> \o ColumnList,
      <<" ", "CREATE", " ", "TABLE", " ", "t1", " ">> \o ColumnList,
      <<"CREATE", " ", " ", "TABLE", " ", "t1", " ">> \o ColumnList,
      <<"CREATE", "TAB", "TABLE", " ", "t1", " ">> \o ColumnList,
      <<"CREATE", " ", "TABLE", "SPACE", " ", "t1">>,
      <<"SELECT", " ", "*", " ", "FROM", " ", "t1">>,
      <<"DELETE", " ", "FROM", " ", "t1">>,
      <<>>
    }

\* A table name that has no registration: virtual_tables has no such key.
NoRegistration == [postgres_table |-> "", schema |-> "", created |-> FALSE]

\* A bridge over a reachable backend that has some tables; no call is running
\* and nothing is registered.
BridgeInit ==
    /\ query = <<>>
    /\ via = "execute_query"
    /\ bridge_pc = "idle"
    /\ route = <<>>
    /\ bridge_err = "none"
    /\ relations \in SUBSET TableNames
    /\ before = relations
    /\ virtual_tables = [n \in TableNames |-> NoRegistration]
    /\ registered = "none"
    /\ reg_call = [facade |-> FALSE, table_name |-> "", postgres_table_name |-> ""]
    /\ returned = "none"
    /\ committed = FALSE

\* A caller calls bridge.execute_query(q) or bridge.execute_dml(q).
Submit(q, v) ==
    /\ bridge_pc = "idle"
    /\ query' = q
    /\ via' = v
    /\ bridge_pc' = "intercept"
    /\ route' = <<>>
    /\ bridge_err' = "none"
    /\ before' = relations
    /\ returned' = "none"
    /\ committed' = FALSE
    /\ UNCHANGED <<relations, virtual_tables, registered, reg_call>>

\* execute_query / execute_dml: query.strip().upper().startswith('CREATE TABLE')
Intercepted(q) == startswith(upper(strip(q)), CREATE_TABLE)

\* _replicate_table_to_postgres, as a whole: convert the statement; if the
\* conversion gave one, execute it on a connection of its own and commit.
\* Any exception is caught and logged.
ReplicatedRelations(q, rels) ==
    LET pg_sql == convert_sqlite_to_postgres(q)
    IN  IF pg_sql = <<>> THEN rels
        ELSE IF PgExecute(pg_sql, rels).err = "none" THEN PgExecute(pg_sql, rels).rels
        ELSE rels

\* The interception at the head of execute_query / execute_dml.
Intercept ==
    /\ bridge_pc = "intercept"
    /\ bridge_pc' = "execute"
    /\ IF Intercepted(query)
         THEN /\ route' = Append(route, "replicate")
              /\ relations' = ReplicatedRelations(query, relations)
         ELSE UNCHANGED <<route, relations>>
    /\ UNCHANGED <<query, via, bridge_err, before, virtual_tables, registered,
                   reg_call, returned, committed>>

\* execute_query: query.strip().upper().startswith('SELECT')
IsSelect(q) == startswith(upper(strip(q)), <<"SELECT">>)

\* The value a successful call returns: execute_query the list of row
\* dictionaries for a SELECT and cursor.rowcount for any other statement,
\* execute_dml cursor.rowcount.
ReturnKind(v, q) == IF v = "execute_query" /\ IsSelect(q) THEN "rows" ELSE "count"

\* VirtualTableInterface.execute_query / execute_dml on a pooled connection:
\* translate, execute; execute_dml commits, execute_query does not, and what
\* is not committed is rolled back when the connection is released.
Execute ==
    /\ bridge_pc = "execute"
    /\ bridge_pc' = "done"
    /\ route' = Append(route, "execute")
    /\ IF query = <<>>
         THEN /\ bridge_err' = "IndexError"
              /\ UNCHANGED relations
         ELSE /\ bridge_err' = PgExecute(translate(query), relations).err
              /\ relations' = IF via = "execute_dml"
                              THEN PgExecute(translate(query), relations).rels
                              ELSE relations
    /\ returned' = IF bridge_err' = "none" THEN ReturnKind(via, query) ELSE "none"
    /\ committed' = (via = "execute_dml" /\ bridge_err' = "none")
    /\ UNCHANGED <<query, via, before, virtual_tables, registered, reg_call>>

\* The call returns to its caller, or raises bridge_err.
BridgeReturn ==
    /\ bridge_pc = "done"
    /\ bridge_pc' = "idle"
    /\ UNCHANGED <<query, via, route, bridge_err, before, relations, virtual_tables,
                   registered, reg_call, returned, committed>>

\* VirtualTableInterface.create_virtual_table(table_name, postgres_schema,
\* postgres_table_name); "" stands for an argument left out (None).
create_virtual_table(table_name, postgres_schema, postgres_table_name) ==
    /\ virtual_tables' =
           [virtual_tables EXCEPT ![table_name] =
               [postgres_table |-> IF postgres_table_name = "" THEN table_name
                                   ELSE postgres_table_name,
                schema |-> postgres_schema,
                created |-> TRUE]]
    /\ registered' = "True"
    /\ reg_call' = [facade |-> FALSE, table_name |-> table_name,
                    postgres_table_name |-> postgres_table_name]
    /\ UNCHANGED <<query, via, bridge_pc, route, bridge_err, before, relations, returned,
                   committed>>

\* SQLitePostgreSQLBridge.create_virtual_table(table_name, postgres_schema)
\* has no parameter for a backend table name: a call that gives one ("" stands
\* for giving none) cannot bind its arguments.
FacadeBinds(postgres_table_name) == postgres_table_name = ""

\* SQLitePostgreSQLBridge.create_virtual_table: a call whose arguments do not
\* bind raises TypeError before the body runs; otherwise the body hands
\* table_name and postgres_schema to the interface and returns its result.
bridge_create_virtual_table(table_name, postgres_schema, postgres_table_name) ==
    /\ IF FacadeBinds(postgres_table_name)
         THEN /\ virtual_tables' =
                     [virtual_tables EXCEPT ![table_name] =
                         [postgres_table |-> IF postgres_table_name = "" THEN table_name
                                             ELSE postgres_table_name,
                          schema |-> postgres_schema,
                          created |-> TRUE]]
              /\ registered' = "True"
         ELSE /\ registered' = "TypeError"
              /\ UNCHANGED virtual_tables
    /\ reg_call' = [facade |-> TRUE, table_name |-> table_name,
                    postgres_table_name |-> postgres_table_name]
    /\ UNCHANGED <<query, via, bridge_pc, route, bridge_err, before, relations, returned,
                   committed>>


\* ------------------------------------------------------ the library's functions
\* sqlite_vtab.py: the lookup table of _map_pg_type_to_sqlite.
type_map ==
    [k \in {"integer", "bigint", "serial", "text", "character varying", "varchar",
            "boolean", "timestamp", "bytea", "real", "double precision"} |->
        CASE k \in {"integer", "bigint", "serial", "boolean"} -> "INTEGER"
          [] k \in {"text", "character varying", "varchar", "timestamp"} -> "TEXT"
          [] k = "bytea" -> "BLOB"
          [] OTHER -> "REAL"]

\* The type names callers pass: the table's keys, the same names in other
\* letter cases, and names the table does not have.
TypeStrings ==
    DOMAIN type_map \cup
    {"INTEGER", "Integer", "BIGINT", "TEXT", "VARCHAR", "BOOLEAN", "TIMESTAMP", "BYTEA",
     "REAL", "Double Precision", "BLOB", "json", "JSON", "uuid", "Numeric",
     "timestamp without time zone", ""}

\* str.lower() on a type name.
lower(s) ==
    CASE s = "INTEGER" -> "integer" [] s = "Integer" -> "integer"
      [] s = "BIGINT" -> "bigint" [] s = "TEXT" -> "text"
      [] s = "VARCHAR" -> "varchar" [] s = "BOOLEAN" -> "boolean"
      [] s = "TIMESTAMP" -> "timestamp" [] s = "BYTEA" -> "bytea"
      [] s = "REAL" -> "real" [] s = "Double Precision" -> "double precision"
      [] s = "BLOB" -> "blob" [] s = "JSON" -> "json" [] s = "Numeric" -> "numeric"
      [] OTHER -> s

\* A lookup without a default: type_map[pg_type.lower()].
StrictLookup(pg_type) ==
    IF lower(pg_type) \in DOMAIN type_map THEN type_map[lower(pg_type)] ELSE "KeyError"

\* PostgreSQLVirtualTable._map_pg_type_to_sqlite:
\* type_map.get(pg_type.lower(), 'TEXT')
map_pg_type_to_sqlite(pg_type) ==
    IF lower(pg_type) \in DOMAIN type_map THEN type_map[lower(pg_type)] ELSE "TEXT"

\* The declared types of embedded columns.
EmbeddedTypes == {"INTEGER", "TEXT", "BLOB", "REAL", "BOOLEAN", "TIMESTAMP", "BIGINT", "VARCHAR"}

\* The backend type an embedded column type becomes: what
\* _convert_sqlite_to_postgres makes of the type in a column definition.
map_column_type(t) ==
    LET pg_sql == convert_sqlite_to_postgres(
                      CREATE_TABLE \o <<" ", "t1", " ", "(", "c", " ", t, ")">>)
    IN  pg_sql[Len(pg_sql) - 1]

\* dict: an ordered sequence of <<key, value>> entries.  d[key] = value
\* replaces the value of an entry the dictionary has and appends otherwise.
setitem(d, key, value) ==
    IF \E i \in 1..Len(d) : d[i][1] = key
    THEN [i \in 1..Len(d) |-> IF d[i][1] = key THEN <<key, value>> ELSE d[i]]
    ELSE Append(d, <<key, value>>)

\* dict(zip(columns, row))
RECURSIVE dict_zip(_, _)
dict_zip(columns, row) ==
    IF columns = <<>> \/ row = <<>> THEN <<>>
    ELSE LET n == IF Len(columns) < Len(row) THEN Len(columns) ELSE Len(row)
         IN  setitem(dict_zip(SubSeq(columns, 1, n - 1), SubSeq(row, 1, n - 1)),
                     columns[n], row[n])

\* VirtualTableInterface.execute_query, the SELECT branch: columns are the
\* names in cursor.description, rows what cursor.fetchall() gives; without a
\* description the result is the empty list.
select_results(columns, rows) ==
    IF columns = <<>> THEN <<>>
    ELSE [i \in 1..Len(rows) |-> dict_zip(columns, rows[i])]

\* Result sets of the backend: one to MaxColumns columns, whose names need
\* not differ (SELECT a.id, b.id ...), and up to MaxFetched rows.
MaxColumns == 2
MaxFetched == 2
ColumnNames == {"id", "name"}
CellValues == {"None", "x"}
SeqsUpTo(S, lo, hi) == UNION {[1..n -> S] : n \in lo..hi}
ResultColumns == SeqsUpTo(ColumnNames, 1, MaxColumns)
ResultRows(n) == SeqsUpTo([1..n -> CellValues], 0, MaxFetched)

\* data_mapper.py line 39, "def _map_row(self, row: Dict[str, Any]]) -> ...",
\* has a closing bracket too many: the module does not compile, and importing
\* it (as bridge.py, virtual_table_interface.py and the package do) raises
\* SyntaxError.
data_mapper_compiles == FALSE

\* DataMapper._map_value: None gives None, a datetime or date is returned as
\* it is, and so is any other value.
map_value(value) ==
    IF value = "None" THEN "None"
    ELSE IF value = "datetime" THEN value
    ELSE value

\* DataMapper._map_row: mapped_row[key] = self._map_value(value) for every
\* item of the row.
RECURSIVE map_row(_)
map_row(row) ==
    IF row = <<>> THEN <<>>
    ELSE LET last == row[Len(row)]
         IN  setitem(map_row(SubSeq(row, 1, Len(row) - 1)), last[1], map_value(last[2]))

\* DataMapper.map_results: the list of the mapped rows.
map_results(results) == [i \in 1..Len(results) |-> map_row(results[i])]

\* The rows map_results is given: dictionaries of the same keys, whose values
\* are None, a datetime, a string or an object of some other kind.
MappedValues == {"None", "datetime", "x", "object"}
MappedRows == {<< <<"id", a>>, <<"name", b>> >> : a \in MappedValues, b \in MappedValues}
MappedResults == SeqsUpTo(MappedRows, 0, MaxFetched)

\* The statements handed to _convert_sqlite_to_postgres.
ConvertInputs ==
    Statements \cup
    { <<"Create", " ", "Table", " ", "t1", " ">> \o ColumnList,
      <<"create", " ", "table", " ", "if", " ", "not", " ", "exists", " ", "t1", " ">>
          \o ColumnList,
      <<"CREATE", " ", "TABLE", " ", "t1", " ">> \o ColumnList \o <<";">>,
      <<"CREATE", " ", "TABLE", " ", "t1", " ">>,
      <<"CREATE", " ", "TABLE", " ", "t1", " ", "(", "BLOB", "_data", " ", "TEXT", ")">>,
      <<"CREATE", " ", "TABLE", " ", "BLOB", "S", " ", "(", "c", " ", "TEXT", ")">>,
      <<"CREATE", " ", "TABLE", " ", "t1", " ",
        "(", "IS_", "AUTOINCREMENT", " ", "INTEGER", ")">>,
      <<" ">> }

\* No function of the library has been called.
NoConv == [called |-> FALSE, sql |-> <<>>, out |-> <<>>]
NoTyped == [called |-> FALSE, pg_type |-> "", out |-> ""]
NoTrip == [called |-> FALSE, t |-> "", backend |-> "", back |-> ""]
NoFetched == [called |-> FALSE, columns |-> <<>>, rows |-> <<>>, results |-> <<>>]
NoMapped == [called |-> FALSE, results |-> <<>>, out |-> <<>>, err |-> "none"]
PureQuiet ==
    /\ conv = NoConv
    /\ typed = NoTyped
    /\ trip = NoTrip
    /\ fetched = NoFetched
    /\ mapped = NoMapped

\* One call of one function: its input and its result go on record.
Convert(sqlite_sql) ==
    /\ conv' = [called |-> TRUE, sql |-> sqlite_sql,
                out |-> convert_sqlite_to_postgres(sqlite_sql)]
    /\ typed' = NoTyped /\ trip' = NoTrip /\ fetched' = NoFetched /\ mapped' = NoMapped

MapType(pg_type) ==
    /\ typed' = [called |-> TRUE, pg_type |-> pg_type,
                 out |-> map_pg_type_to_sqlite(pg_type)]
    /\ conv' = NoConv /\ trip' = NoTrip /\ fetched' = NoFetched /\ mapped' = NoMapped

RoundTrip(t) ==
    /\ trip' = [called |-> TRUE, t |-> t, backend |-> map_column_type(t),
                back |-> map_pg_type_to_sqlite(map_column_type(t))]
    /\ conv' = NoConv /\ typed' = NoTyped /\ fetched' = NoFetched /\ mapped' = NoMapped

Fetch(columns, rows) ==
    /\ fetched' = [called |-> TRUE, columns |-> columns, rows |-> rows,
                   results |-> select_results(columns, rows)]
    /\ conv' = NoConv /\ typed' = NoTyped /\ trip' = NoTrip /\ mapped' = NoMapped

MapResults(results) ==
    /\ mapped' = IF data_mapper_compiles
                 THEN [called |-> TRUE, results |-> results,
                       out |-> map_results(results), err |-> "none"]
                 ELSE [called |-> TRUE, results |-> results,
                       out |-> <<>>, err |-> "SyntaxError"]
    /\ conv' = NoConv /\ typed' = NoTyped /\ trip' = NoTrip /\ fetched' = NoFetched

\* The caller has the result: the record is cleared.
Returned ==
    /\ ~PureQuiet
    /\ conv' = NoConv /\ typed' = NoTyped /\ trip' = NoTrip
    /\ fetched' = NoFetched /\ mapped' = NoMapped


\* ------------------------------------------- translate among other operations
\* The statements handed to translate: of a known category, of none, several
\* statements in one string, and the empty string.
MaxLog == 4
TranslateInputs ==
    { <<"SELECT", " ", "*", " ", "FROM", " ", "t1">>,
      <<"VACUUM">>,
      <<"DELETE", " ", "FROM", " ", "t1", ";", " ", "DELETE", " ", "FROM", " ", "t2">>,
      <<>> }

Logged(op, q, out, e) == [op |-> op, q |-> q, out |-> out, err |-> e]

\* QueryTranslator.translate(query) as a call: sqlparse.parse('') is empty and
\* "[0]" raises IndexError, which translate logs and raises again.
Translate(q) ==
    /\ Len(tlog) < MaxLog
    /\ tlog' = Append(tlog, IF q = <<>>
                            THEN Logged("translate", q, <<>>, "IndexError")
                            ELSE Logged("translate", q, translate(q), "none"))

\* A registration on the bridge's interface, between translate calls.
Register(postgres_table_name) ==
    /\ Len(tlog) < MaxLog
    /\ create_virtual_table("t1", "", postgres_table_name)
    /\ tlog' = Append(tlog, Logged("create_virtual_table", <<>>, <<>>, "none"))

\* The pool is closed, between translate calls.
ClosePool ==
    /\ Len(tlog) < MaxLog
    /\ Close
    /\ tlog' = Append(tlog, Logged("close", <<>>, <<>>, "none"))

\* ------------------------------------------------------------ test_connection
\* ConnectionManager.test_connection, the with-body: cursor = conn.cursor();
\* cursor.execute("SELECT 1"); cursor.close(); return True.  Nothing commits
\* or rolls back: the connection goes to putconn with its transaction open.
TestConnectionBody(t) == CursorExecute(t, "finally")

\* ConnectionManager.test_connection returns to caller t: True when the with
\* statement was left without an exception, and False, from "except
\* Exception", when get_connection or the body raised one.
TestConnectionReturn(t) ==
    /\ pc[t] = "done"
    /\ healthy' = [healthy EXCEPT ![t] = IF err[t] = "none" THEN "True" ELSE "False"]
    /\ pc' = [pc EXCEPT ![t] = "idle"]
    /\ err' = [err EXCEPT ![t] = "none"]
    /\ orig' = [orig EXCEPT ![t] = "none"]
    /\ trace' = [trace EXCEPT ![t] = <<>>]
    /\ UNCHANGED <<poolVars, held>>

\* initialize(), the end of the try block: "Bridge initialized successfully";
\* return True.  _migrate_schema catches every exception it meets and
\* get_connection() is not entered, so no step of a pass reaches initialize's
\* own except clause ("return False").
InitializeReturns == initialized' = IF sync_pc' = "done" THEN "True" ELSE "none"

TransQuiet == tlog = <<>>
HealthQuiet == healthy = [t \in Callers |-> "none"]
InitQuiet == initialized = "none"
LifeQuiet ==
    /\ connection_pool_size = pool_size
    /\ own_closed = FALSE
    /\ close_called = FALSE
    /\ direct = 0
    /\ late = FALSE
LibQuiet == PureQuiet /\ TransQuiet /\ HealthQuiet /\ InitQuiet /\ LifeQuiet


\* ------------------------------------------------------ the bridge's two pools
\* SQLitePostgreSQLBridge.__init__: the bridge builds its own
\* ConnectionManager(postgres_url, connection_pool_size) and a
\* VirtualTableInterface(sqlite_conn, postgres_url), which builds a
\* ConnectionManager(postgres_url) of its own, of the default size.  The pool
\* of poolVars is the interface's: execute_query and execute_dml go through
\* it.  The bridge's own pool is never borrowed from; it holds the minconn
\* connections it opened until it is closed.
BridgeConstructed ==
    /\ connection_pool_size \in 1..MaxPoolSize
    /\ pool_size = DefaultPoolSize
    /\ PoolFresh
    /\ own_closed = FALSE
    /\ close_called = FALSE
    /\ direct = 0
    /\ late = FALSE

\* conn = self.connection_pool.getconn() of a statement, on the interface's
\* pool.
Acquire(t) ==
    /\ getconn(t)
    /\ late' = (late \/ (close_called /\ held'[t] # None))
    /\ UNCHANGED <<connection_pool_size, own_closed, close_called, direct>>

\* _replicate_table_to_postgres for a CREATE TABLE statement:
\* pg_conn = psycopg2.connect(self.postgres_url), whatever the state of the
\* pools.
ReplicateConnect ==
    /\ direct < NumCallers
    /\ direct' = direct + 1
    /\ late' = (late \/ close_called)
    /\ UNCHANGED <<poolVars, callerVars, connection_pool_size, own_closed, close_called>>

\* _replicate_table_to_postgres: execute, commit, pg_conn.close().
ReplicateClose ==
    /\ direct > 0
    /\ direct' = direct - 1
    /\ UNCHANGED <<poolVars, callerVars, connection_pool_size, own_closed, close_called,
                   late>>

\* ConnectionManager.close() called on the bridge's own manager
\* (bridge.connection_manager.close()); on a closed pool closeall raises
\* PoolError and changes nothing.
ManagerClose ==
    /\ own_closed' = TRUE
    /\ UNCHANGED <<poolVars, callerVars, connection_pool_size, close_called, direct, late>>

\* SQLitePostgreSQLBridge.close(): "try: self.connection_manager.close();
\* self.virtual_table_interface.close() ... except Exception: log".  When the
\* first close raises (closeall on a pool already closed) the second is not
\* reached.  VirtualTableInterface.close() catches what its own manager's
\* close raises.
BridgeClose ==
    /\ close_called' = TRUE
    /\ IF own_closed
         THEN UNCHANGED <<poolVars, callerVars, own_closed>>
         ELSE /\ own_closed' = TRUE
              /\ Close
    /\ UNCHANGED <<connection_pool_size, direct, late>>

\* The backend connections the bridge has open: those of its own pool, those
\* of the interface's pool and those of replications.
OpenConnections ==
    (IF own_closed THEN 0 ELSE minconn)
        + Cardinality({c \in Live : ~connClosed[c]})
        + direct

\* ------------------------------------------- translation before acquisition
\* execute_query / execute_dml: where the call goes after
\* "postgres_query = self.query_translator.translate(query)": on to
\* "with self.connection_manager.get_connection()" when translate returned,
\* and to the except clause (log, raise) when it raised.
AcquiresAnyway(translated) == "getconn"
AfterTranslate(translated) == IF translated THEN "getconn" ELSE "done"

\* execute_query / execute_dml entered by caller t with statement q: the
\* statement is translated first (translate('') raises IndexError).
Statement(t, q) ==
    /\ pc[t] = "idle"
    /\ pc' = [pc EXCEPT ![t] = AfterTranslate(q # <<>>)]
    /\ err' = [err EXCEPT ![t] = IF q # <<>> THEN "none" ELSE "translate:IndexError"]
    /\ UNCHANGED <<poolVars, held, orig, trace>>

\* ------------------------------------------------------------ specification
\* The pool and its callers; no synchronisation pass runs.
SyncQuiet ==
    /\ sqlite_master = [t \in Tables |-> NoEmbedded]
    /\ pg_tables = [t \in Tables |-> NoTable]
    /\ pg_conn = "none"
    /\ pg_view = pg_tables
    /\ sync_pc = "idle"
    /\ cursor = 1
    /\ existing_tables = {}
    /\ dropped = {}
    /\ migrated = {}
    /\ attempted = {}
    /\ prev = NoPrev

\* No thread runs a pass of its own; no statement goes through the bridge.
ParQuiet == runs = [s \in Syncers |-> NoRun]

BridgeQuiet == BridgeInit /\ relations = {}

Init == PoolInit /\ SyncQuiet /\ ParQuiet /\ BridgeQuiet /\ LibQuiet

\* One step of caller t inside a call it has started.
Step(t) ==
    \/ getconn(t)
    \/ ExecuteQuery(t)
    \/ ExecuteDml(t)
    \/ Commit(t)
    \/ Except(t)
    \/ Finally(t)
    \/ Return(t)

Next ==
    \/ (\E t \in Callers : Call(t)) /\ UNCHANGED <<syncVars, parVars, bridgeVars, libVars>>
    \/ (\E t \in Callers : getconn(t)) /\ UNCHANGED <<syncVars, parVars, bridgeVars, libVars>>
    \/ (\E t \in Callers : ExecuteQuery(t)) /\ UNCHANGED <<syncVars, parVars, bridgeVars, libVars>>
    \/ (\E t \in Callers : ExecuteDml(t)) /\ UNCHANGED <<syncVars, parVars, bridgeVars, libVars>>
    \/ (\E t \in Callers : Commit(t)) /\ UNCHANGED <<syncVars, parVars, bridgeVars, libVars>>
    \/ (\E t \in Callers : Except(t)) /\ UNCHANGED <<syncVars, parVars, bridgeVars, libVars>>
    \/ (\E t \in Callers : Finally(t)) /\ UNCHANGED <<syncVars, parVars, bridgeVars, libVars>>
    \/ (\E t \in Callers : Return(t)) /\ UNCHANGED <<syncVars, parVars, bridgeVars, libVars>>
    \/ Close /\ UNCHANGED <<syncVars, parVars, bridgeVars, libVars>>

Spec == Init /\ [][Next]_vars

\* Threads are scheduled fairly: a call that has been started runs to its end.
\* Nothing obliges a caller to start a call, nor anyone to close the pool.
FairSpec == Spec /\ \A t \in Callers : WF_vars(Step(t) /\ UNCHANGED <<syncVars, parVars, bridgeVars, libVars>>)

\* The synchronisation pass on its own: initialize() and _migrate_schema use
\* psycopg2.connect directly and do not touch the pool.
SyncStart ==
    PoolInit /\ pool_size = MaxPoolSize /\ SyncInit /\ ParQuiet /\ BridgeQuiet /\ LibQuiet

SyncNext ==
    \/ Initialize /\ InitializeReturns
           /\ UNCHANGED <<poolVars, callerVars, parVars, bridgeVars, pureVars, transVars,
                          healthVars, lifeVars>>
    \/ Connect /\ InitializeReturns
           /\ UNCHANGED <<poolVars, callerVars, parVars, bridgeVars, pureVars, transVars,
                          healthVars, lifeVars>>
    \/ ListTables /\ InitializeReturns
           /\ UNCHANGED <<poolVars, callerVars, parVars, bridgeVars, pureVars, transVars,
                          healthVars, lifeVars>>
    \/ Drop /\ InitializeReturns
           /\ UNCHANGED <<poolVars, callerVars, parVars, bridgeVars, pureVars, transVars,
                          healthVars, lifeVars>>
    \/ Create /\ InitializeReturns
           /\ UNCHANGED <<poolVars, callerVars, parVars, bridgeVars, pureVars, transVars,
                          healthVars, lifeVars>>
    \/ Copy /\ InitializeReturns
           /\ UNCHANGED <<poolVars, callerVars, parVars, bridgeVars, pureVars, transVars,
                          healthVars, lifeVars>>
    \/ Commit_pg /\ InitializeReturns
           /\ UNCHANGED <<poolVars, callerVars, parVars, bridgeVars, pureVars, transVars,
                          healthVars, lifeVars>>

SyncSpec == SyncStart /\ [][SyncNext]_vars

\* Several threads call initialize() on bridges of one backend.
ParStart ==
    /\ PoolInit /\ pool_size = MaxPoolSize
    /\ SyncInit
    /\ sqlite_master \in [Tables -> PlainTable]
    /\ pg_tables = [t \in Tables |-> NoTable]
    /\ ParQuiet
    /\ BridgeQuiet
    /\ LibQuiet

ParNext ==
    \/ (\E s \in Syncers : ConcurrentInitialize(s))
           /\ UNCHANGED <<poolVars, callerVars, bridgeVars, libVars>>
    \/ (\E s \in Syncers : ConcurrentMigrateStep(s))
           /\ UNCHANGED <<poolVars, callerVars, bridgeVars, libVars>>

ParSpec == ParStart /\ [][ParNext]_vars

\* Statements and registrations going through one bridge, one call at a time.
BridgeStart ==
    PoolInit /\ pool_size = MaxPoolSize /\ SyncQuiet /\ ParQuiet /\ BridgeInit /\ LibQuiet

BridgeNext ==
    \/ (\E q \in Statements, v \in {"execute_query", "execute_dml"} : Submit(q, v))
           /\ UNCHANGED <<poolVars, callerVars, syncVars, parVars, libVars>>
    \/ Intercept /\ UNCHANGED <<poolVars, callerVars, syncVars, parVars, libVars>>
    \/ Execute /\ UNCHANGED <<poolVars, callerVars, syncVars, parVars, libVars>>
    \/ BridgeReturn /\ UNCHANGED <<poolVars, callerVars, syncVars, parVars, libVars>>
    \/ (\E n \in TableNames, sch \in {"", "schema"}, pg \in TableNames \cup {""} :
            create_virtual_table(n, sch, pg))
           /\ UNCHANGED <<poolVars, callerVars, syncVars, parVars, libVars>>
    \/ (\E n \in TableNames, sch \in {"", "schema"}, pg \in TableNames \cup {""} :
            bridge_create_virtual_table(n, sch, pg))
           /\ UNCHANGED <<poolVars, callerVars, syncVars, parVars, libVars>>

BridgeSpec == BridgeStart /\ [][BridgeNext]_vars


\* The library's functions, one call at a time: a call is made when no other
\* is on record.
PureStart ==
    PoolInit /\ pool_size = MaxPoolSize /\ SyncQuiet /\ ParQuiet /\ BridgeQuiet /\ LibQuiet

PureNext ==
    \/ (PureQuiet /\ \E q \in ConvertInputs : Convert(q))
           /\ UNCHANGED <<poolVars, callerVars, syncVars, parVars, bridgeVars,
                          transVars, healthVars, initVars, lifeVars>>
    \/ (PureQuiet /\ \E t \in TypeStrings : MapType(t))
           /\ UNCHANGED <<poolVars, callerVars, syncVars, parVars, bridgeVars,
                          transVars, healthVars, initVars, lifeVars>>
    \/ (PureQuiet /\ \E t \in EmbeddedTypes : RoundTrip(t))
           /\ UNCHANGED <<poolVars, callerVars, syncVars, parVars, bridgeVars,
                          transVars, healthVars, initVars, lifeVars>>
    \/ (PureQuiet /\ \E columns \in ResultColumns : \E rows \in ResultRows(Len(columns)) :
            Fetch(columns, rows))
           /\ UNCHANGED <<poolVars, callerVars, syncVars, parVars, bridgeVars,
                          transVars, healthVars, initVars, lifeVars>>
    \/ (PureQuiet /\ \E results \in MappedResults : MapResults(results))
           /\ UNCHANGED <<poolVars, callerVars, syncVars, parVars, bridgeVars,
                          transVars, healthVars, initVars, lifeVars>>
    \/ Returned
           /\ UNCHANGED <<poolVars, callerVars, syncVars, parVars, bridgeVars,
                          transVars, healthVars, initVars, lifeVars>>

PureSpec == PureStart /\ [][PureNext]_vars

\* translate calls on one bridge, with registrations and the closing of the
\* pool between them.
TranslateNext ==
    \/ (\E q \in TranslateInputs : Translate(q))
           /\ UNCHANGED <<poolVars, callerVars, syncVars, parVars, bridgeVars,
                          pureVars, healthVars, initVars, lifeVars>>
    \/ (\E pg \in {"", "t2"} : Register(pg))
           /\ UNCHANGED <<poolVars, callerVars, syncVars, parVars, pureVars, healthVars, initVars, lifeVars>>
    \/ ClosePool
           /\ UNCHANGED <<syncVars, parVars, bridgeVars, pureVars, healthVars, initVars, lifeVars>>

TranslateSpec == PureStart /\ [][TranslateNext]_vars

\* Callers of test_connection on one pool, and close().
HealthNext ==
    \/ (\E t \in Callers : Call(t))
           /\ UNCHANGED <<syncVars, parVars, bridgeVars, pureVars, transVars, healthVars,
                          initVars, lifeVars>>
    \/ (\E t \in Callers : getconn(t))
           /\ UNCHANGED <<syncVars, parVars, bridgeVars, pureVars, transVars, healthVars,
                          initVars, lifeVars>>
    \/ (\E t \in Callers : TestConnectionBody(t))
           /\ UNCHANGED <<syncVars, parVars, bridgeVars, pureVars, transVars, healthVars,
                          initVars, lifeVars>>
    \/ (\E t \in Callers : Except(t))
           /\ UNCHANGED <<syncVars, parVars, bridgeVars, pureVars, transVars, healthVars,
                          initVars, lifeVars>>
    \/ (\E t \in Callers : Finally(t))
           /\ UNCHANGED <<syncVars, parVars, bridgeVars, pureVars, transVars, healthVars,
                          initVars, lifeVars>>
    \/ (\E t \in Callers : TestConnectionReturn(t))
           /\ UNCHANGED <<syncVars, parVars, bridgeVars, pureVars, transVars, initVars, lifeVars>>
    \/ Close
           /\ UNCHANGED <<syncVars, parVars, bridgeVars, pureVars, transVars, healthVars,
                          initVars, lifeVars>>

HealthSpec == Init /\ [][HealthNext]_vars


\* One bridge from its construction to its shutdown: statements on the
\* interface's pool, CREATE TABLE replications, close().
LifeStart ==
    /\ BridgeConstructed
    /\ SyncQuiet /\ ParQuiet /\ BridgeQuiet
    /\ PureQuiet /\ TransQuiet /\ HealthQuiet /\ InitQuiet

LifeRest == <<syncVars, parVars, bridgeVars, pureVars, transVars, healthVars, initVars>>

LifeNext ==
    \/ (\E t \in Callers : Call(t)) /\ UNCHANGED <<lifeVars, LifeRest>>
    \/ (\E t \in Callers : Acquire(t)) /\ UNCHANGED LifeRest
    \/ (\E t \in Callers : ExecuteQuery(t)) /\ UNCHANGED <<lifeVars, LifeRest>>
    \/ (\E t \in Callers : ExecuteDml(t)) /\ UNCHANGED <<lifeVars, LifeRest>>
    \/ (\E t \in Callers : Commit(t)) /\ UNCHANGED <<lifeVars, LifeRest>>
    \/ (\E t \in Callers : Except(t)) /\ UNCHANGED <<lifeVars, LifeRest>>
    \/ (\E t \in Callers : Finally(t)) /\ UNCHANGED <<lifeVars, LifeRest>>
    \/ (\E t \in Callers : Return(t)) /\ UNCHANGED <<lifeVars, LifeRest>>
    \/ ReplicateConnect /\ UNCHANGED LifeRest
    \/ ReplicateClose /\ UNCHANGED LifeRest
    \/ ManagerClose /\ UNCHANGED LifeRest
    \/ BridgeClose /\ UNCHANGED LifeRest

LifeSpec == LifeStart /\ [][LifeNext]_vars

\* Statements of several callers on one pool, each translated before it
\* borrows a connection.
StatementNext ==
    \/ (\E t \in Callers : \E q \in TranslateInputs : Statement(t, q))
           /\ UNCHANGED <<syncVars, parVars, bridgeVars, libVars>>
    \/ (\E t \in Callers : getconn(t)) /\ UNCHANGED <<syncVars, parVars, bridgeVars, libVars>>
    \/ (\E t \in Callers : ExecuteQuery(t))
           /\ UNCHANGED <<syncVars, parVars, bridgeVars, libVars>>
    \/ (\E t \in Callers : ExecuteDml(t)) /\ UNCHANGED <<syncVars, parVars, bridgeVars, libVars>>
    \/ (\E t \in Callers : Commit(t)) /\ UNCHANGED <<syncVars, parVars, bridgeVars, libVars>>
    \/ (\E t \in Callers : Except(t)) /\ UNCHANGED <<syncVars, parVars, bridgeVars, libVars>>
    \/ (\E t \in Callers : Finally(t)) /\ UNCHANGED <<syncVars, parVars, bridgeVars, libVars>>
    \/ (\E t \in Callers : Return(t)) /\ UNCHANGED <<syncVars, parVars, bridgeVars, libVars>>
    \/ Close /\ UNCHANGED <<syncVars, parVars, bridgeVars, libVars>>

StatementSpec == Init /\ [][StatementNext]_vars

\* ------------------------------------------------- claims: connection pool
\* Caller t takes the step that leaves get_connection's finally clause.
Releases(t) == pc[t] = "finally" /\ pc'[t] = "done"

\* The callers that hold a connection (are inside the with statement).
Holders == {t \in Callers : held[t] # None}

\* C1: in every reachable state the number of connections checked out of the
\* pool, and the number of callers holding one, is at most pool_size.
C1_CheckedOutAtMostPoolSize ==
    /\ Cardinality(used) <= pool_size
    /\ Cardinality(Holders) <= pool_size

\* C1 witness: the pool is full and a further acquire has been turned away.
C1_Witness ==
    \E t \in Callers :
        /\ err[t] = "getconn:PoolError(exhausted)"
        /\ Cardinality(used) = pool_size
        /\ Cardinality(Holders) = pool_size

\* C2: no connection is held by two callers at once, and a connection a
\* caller holds is checked out, not also in the idle list where a further
\* acquire could pick it up.
C2_NoConnectionLentTwice ==
    /\ \A t1, t2 \in Callers : (t1 # t2 /\ held[t1] # None) => held[t1] # held[t2]
    /\ \A t \in Holders : held[t] \in used /\ held[t] \notin Range(idle)

\* C2 witness: two callers hold connections at the same time.
C2_Witness ==
    \E t1, t2 \in Callers : t1 # t2 /\ held[t1] # None /\ held[t2] # None

C4_RollbackBeforeReleaseBeforeRaise ==
    \A t \in Callers :
        /\ (pc[t] = "finally" /\ orig[t] # "none") =>
               /\ trace[t] = <<"fail", "rollback">>
               /\ connStatus[held[t]] = "IDLE" \/ connClosed[held[t]]
        /\ (pc[t] = "done" /\ orig[t] # "none") =>
               /\ trace[t] = <<"fail", "rollback", "release">>
               /\ err[t] # "none"

\* C4 witness: a statement was rejected, rolled back, the connection released
\* and the error is on its way to the caller.
C4_Witness ==
    \E t \in Callers :
        /\ pc[t] = "done"
        /\ orig[t] = "DatabaseError"
        /\ trace[t] = <<"fail", "rollback", "release">>

\* C5: the error a caller receives after its with-body failed is the error
\* the with-body raised.
C5_CallerGetsOriginalError ==
    \A t \in Callers : (pc[t] = "done" /\ orig[t] # "none") => err[t] = orig[t]

\* C6: an acquire that finds every connection checked out does not fail in
\* that step: the caller stays in the acquire, waiting.  (The code has no
\* acquire timeout, so no time passes before a failure.)
C6_ExhaustedAcquireWaits ==
    [][\A t \in Callers :
          (pc[t] = "getconn" /\ ~closed /\ idle = <<>> /\ Exhausted) =>
              pc'[t] = "getconn"]_vars

\* Some checked-out connection is held by no caller.  No release can come for
\* it: the pool was closed over it, or putconn failed before it removed it from
\* the used map.
Abandoned == used \ {held[u] : u \in Callers} # {}

\* C7: a caller whose acquire finds every connection checked out eventually
\* holds a connection: the callers that hold the connections release them
\* (threads are scheduled fairly) and the waiting acquire is served.  Excepted
\* are a pool that is closed first and one whose connection no caller can
\* release any more.
C7_WaitingAcquireEventuallyServed ==
    \A t \in Callers :
        (pc[t] = "getconn" /\ ~closed /\ idle = <<>> /\ Exhausted)
            ~> (held[t] # None \/ closed \/ Abandoned)

\* C8: once the pool is closed it stays closed, every connection of the pool
\* (idle or checked out) is closed, and an acquire neither returns a
\* connection nor fails with anything but the pool-closed error.
C8_NoAcquireAfterClose ==
    [][/\ closed => closed'
       /\ closed' => \A c \in Range(idle') \cup used' : connClosed'[c]
       /\ \A t \in Callers :
            (closed /\ pc[t] = "getconn" /\ pc'[t] # "getconn") =>
                /\ held'[t] = None
                /\ err'[t] = "getconn:PoolError(closed)"]_vars

\* C8 witness: the pool was closed with a connection checked out, and a later
\* acquire has failed with the pool-closed error.
C8_Witness ==
    /\ closed
    /\ used # {}
    /\ \E t \in Callers : pc[t] = "done" /\ err[t] = "getconn:PoolError(closed)"

\* C9: the release of a connection whose last operation raised a connectivity
\* error (the connection object is closed) does not put it into the idle list
\* and creates no connection; a connection comes into being only in an
\* acquire, for the caller that acquires.
C9_BrokenConnectionDiscarded ==
    [][/\ \A t \in Callers :
            (Releases(t) /\ held[t] # None /\ connClosed[held[t]]) =>
                /\ held[t] \notin Range(idle')
                /\ idle' = idle
                /\ Live' \subseteq Live
       /\ \A c \in Live' \ Live :
            \E t \in Callers : pc[t] = "getconn" /\ held'[t] = c]_vars

\* C9 witness: a call lost its connection, the connection was released to an
\* open pool, and the pool now holds no connection at all.
C9_Witness ==
    \E t \in Callers :
        /\ pc[t] = "done"
        /\ orig[t] = "OperationalError"
        /\ ~closed
        /\ idle = <<>>
        /\ used = {}

\* ------------------------------------------- claims: synchronisation pass
\* C10: a synchronisation pass drops backend tables only when the
\* schema-ownership flag is on: with the flag off or absent, every table a pass
\* issued a DROP TABLE for is still in the backend.
C10_DropsOnlyWithOwnership ==
    schema_ownership \/ \A t \in dropped : pg_tables[t].exists

\* The embedded catalog holds no user table (the system table is still there).
NoUserTables == \A t \in Tables : ~sqlite_master[t].present

\* The running pass has ended, having reached its commit: committed, or
\* rolled back by the commit of an aborted transaction.
PassEnded == sync_pc = "done" /\ pg_conn \in {"closed", "rolledback"}

\* The running pass is the second of two passes that both reached their commit.
SecondPassEnded == PassEnded /\ prev.ran /\ prev.conn \in {"closed", "rolledback"}

\* C11: after the second of two full passes over an unchanged embedded store,
\* every backend table is as it was after the first (same tables, same row
\* counts), and when the passes committed, every embedded table the backend
\* has holds exactly the embedded table's rows.
C11_SecondPassSameRowCounts ==
    SecondPassEnded =>
        /\ pg_tables = prev.tables
        /\ pg_conn = "closed" =>
               \A t \in UserTables :
                   pg_tables[t].exists => pg_tables[t].rows = sqlite_master[t].rows

\* C11 witness: two passes committed and a backend table holds the rows of
\* its embedded table, which has some.
C11_Witness ==
    /\ SecondPassEnded
    /\ pg_conn = "closed"
    /\ prev.conn = "closed"
    /\ \E t \in UserTables : pg_tables[t].exists /\ pg_tables[t].rows > 0

\* C12: a pass that follows a committed pass over the unchanged embedded
\* store does nothing to the backend: it issues no DROP, creates no table and
\* issues no INSERT, so its transaction sees the backend as it is committed.
C12_SecondPassIsNoOp ==
    (prev.ran /\ prev.conn = "closed") =>
        /\ dropped = {}
        /\ attempted = {}
        /\ pg_view = pg_tables

\* C13: after a pass that reached its commit, every embedded table whose own
\* CREATE statement converts and is accepted by the backend is in the backend,
\* whatever became of the other tables' statements.
C13_FailedTableOnlySkipped ==
    PassEnded =>
        \A t \in UserTables : sqlite_master[t].ddl = "ok" => pg_tables[t].exists

\* C14: after a pass that reached its commit and in which no CREATE was
\* rejected, every table that was created holds its embedded rows in the
\* backend, whatever became of the copies of the other tables.
C14_FailedCopyOnlySkipped ==
    (PassEnded /\ \A u \in UserTables : sqlite_master[u].ddl # "rejected") =>
        \A t \in UserTables :
            sqlite_master[t].ddl = "ok" =>
                /\ pg_tables[t].exists
                /\ pg_tables[t].rows = sqlite_master[t].rows

\* C15: every table the pass issued an INSERT for was created earlier in the
\* same pass, and no INSERT is issued before the create loop has ended.
C15_InsertsOnlyIntoCreated ==
    /\ attempted \subseteq migrated
    /\ attempted # {} => sync_pc \in {"copy", "commit", "done"}

\* C17: with no user table in the embedded catalog, initialize() leaves the
\* backend alone: the pass ends at once, no migration connection exists, no
\* DROP, CREATE or INSERT is issued and the backend's tables stay as they were.
C17_NoUserTablesNoBackendChange ==
    NoUserTables =>
        /\ sync_pc \in {"idle", "done"}
        /\ pg_conn = "none"
        /\ dropped = {} /\ migrated = {} /\ attempted = {}
        /\ pg_view = pg_tables
        /\ prev.ran => pg_tables = prev.tables

\* C17 witness: initialize() has run twice over a store with no user table
\* and a backend that has a table with rows.
C17_Witness ==
    /\ NoUserTables
    /\ sync_pc = "done"
    /\ prev.ran
    /\ \E t \in Tables : pg_tables[t].exists /\ pg_tables[t].rows > 0


\* ------------------------------------------- claims: concurrent passes
\* The threads whose pass is in progress.
Running == {s \in Syncers : runs[s].pc \notin {"idle", "done"}}

\* C16: at most one synchronisation pass is in progress at any time: a thread
\* that calls initialize() while a pass is running does not start a second one
\* alongside it.
C16_SingleFlightPass == Cardinality(Running) <= 1

\* ------------------------------------------------- claims: the bridge
\* C18: when a call has executed its statement, a CREATE TABLE statement has
\* gone through the replication path and then the normal path, and a
\* statement of any other category through the normal path only.
C18_CreateTableReplicatedFirst ==
    bridge_pc = "done" =>
        route = IF IsCreateTable(query) THEN <<"replicate", "execute">>
                ELSE <<"execute">>

\* C19: a call with a CREATE TABLE statement for a table the backend did not
\* have ends without an error for the caller and with the table in the
\* backend.
C19_CreateTableSucceeds ==
    (/\ bridge_pc = "done"
     /\ IsCreateTable(query)
     /\ Lookup(CreatedTable(query), before) = "absent") =>
        /\ bridge_err = "none"
        /\ CreatedTable(query)[1] \in relations

\* C20: the backend table name of a registered table is never replaced by
\* another one: a create_virtual_table call that would do so fails and leaves
\* the registration as it is.
C20_RegistrationNeverOverwritten ==
    [][\A n \in TableNames :
          virtual_tables[n].created =>
              virtual_tables'[n].postgres_table = virtual_tables[n].postgres_table]_vars


\* C21: after a call of the facade's create_virtual_table the call has
\* returned True and the table is registered under the backend name the call
\* gave, or under its own name when the call gave none.
C21_FacadeRegistersBackendName ==
    reg_call.facade =>
        /\ registered = "True"
        /\ virtual_tables[reg_call.table_name].postgres_table =
               IF reg_call.postgres_table_name = "" THEN reg_call.table_name
               ELSE reg_call.postgres_table_name

\* C23: a call that ends without an error has returned a list of rows when it
\* went through execute_query, whatever the statement, and a row count when
\* it went through execute_dml.
C23_QueryReturnsRows ==
    (bridge_pc = "done" /\ bridge_err = "none") =>
        returned = IF via = "execute_query" THEN "rows" ELSE "count"


\* ------------------------------------------------- claims: library functions
\* C22: the rows execute_query builds for a SELECT are one per row of the
\* backend's result, in its order, and each row has one entry per column of
\* the result, keyed by the column's name, in the order of the columns.
C22_OneEntryPerColumn ==
    fetched.called =>
        /\ Len(fetched.results) = Len(fetched.rows)
        /\ \A i \in 1..Len(fetched.results) :
              /\ Len(fetched.results[i]) = Len(fetched.columns)
              /\ \A j \in 1..Len(fetched.results[i]) :
                    fetched.results[i][j] = <<fetched.columns[j], fetched.rows[i][j]>>

C25_TranslateNeverFails ==
    \A i \in 1..Len(tlog) :
        tlog[i].op = "translate" => (tlog[i].err = "none" /\ tlog[i].out = tlog[i].q)

\* C26: when the conversion is given a statement that starts with CREATE TABLE
\* in any letter case, its output holds IF NOT EXISTS exactly once.
C26_IfNotExistsExactlyOnce ==
    (conv.called /\ startswith(upper(conv.sql), CREATE_TABLE)) =>
        Cardinality(Occurrences(upper(conv.out), IF_NOT_EXISTS)) = 1

\* The type names the embedded engine knows.
SqliteTypes == {"INTEGER", "TEXT", "BLOB", "REAL"}

\* C27: the type mapping gives a type name for every type string, and TEXT for
\* every string that in no letter case is a name of its table.
C27_TypeMappingTotal ==
    typed.called =>
        /\ typed.out \in SqliteTypes
        /\ (lower(typed.pg_type) \notin DOMAIN type_map) => typed.out = "TEXT"

\* C27 witness: an unknown type name in upper case was mapped, to TEXT.
C27_Witness == typed.called /\ typed.pg_type = "JSON" /\ typed.out = "TEXT"

\* C28: an embedded type whose backend type the mapping knows comes back as
\* itself when it is mapped to the backend type and that is mapped back.
C28_TypeRoundTrip ==
    (trip.called /\ lower(trip.backend) \in DOMAIN type_map) => trip.back = trip.t

\* C29: map_results gives as many rows as it was given, each with the keys of
\* its input row in their order, None for None and every other value as it
\* was.
C29_MapResultsPreserves ==
    mapped.called =>
        /\ mapped.err = "none"
        /\ Len(mapped.out) = Len(mapped.results)
        /\ \A i \in 1..Len(mapped.out) :
              /\ Len(mapped.out[i]) = Len(mapped.results[i])
              /\ \A j \in 1..Len(mapped.out[i]) : mapped.out[i][j] = mapped.results[i][j]

\* test_connection's statement ran on a borrowed connection: the call went
\* on to release a connection and its with-body did not fail.
StatementRan(t) ==
    /\ \E i \in 1..Len(trace[t]) : trace[t][i] = "release"
    /\ \A i \in 1..Len(trace[t]) : trace[t][i] # "fail"

\* C30, on a pool that is open: test_connection returns True when its
\* statement ran and False otherwise, and the release step takes the borrowed
\* connection out of the checked-out set, whose count goes down by one.
C30_TestConnectionReleases ==
    [][\A t \in Callers :
          /\ (pc[t] = "done" /\ pc'[t] = "idle" /\ ~closed) =>
                healthy'[t] = IF StatementRan(t) THEN "True" ELSE "False"
          /\ (Releases(t) /\ held[t] # None /\ ~closed) =>
                /\ held[t] \notin used'
                /\ Cardinality(used') = Cardinality(used) - 1]_vars


\* ------------------------------------------- claims: connections and shutdown
\* C36: when a synchronisation pass has returned, the connection it opened
\* for itself is closed, whichever way the pass ended (a pass that opened
\* none has none).
C36_MigrationConnectionClosed ==
    sync_pc = "done" => pg_conn \in {"none", "closed", "rolledback"}

\* C37: every backend table a pass issues a DROP TABLE for has the name of a
\* user table of the embedded catalog (so that a backend table without such a
\* counterpart is never dropped and keeps its rows).
C37_DropsOnlyReplacedTables == \A t \in dropped : sqlite_master[t].present


\* The pass that has returned met an error it could not go on from: the
\* backend could not be reached, or a statement outside the per-table try
\* blocks (the table listing, a DROP TABLE, the commit) raised.
MigrationFailed ==
    \/ pg_conn = "abandoned"
    \/ pg_conn = "none" /\ UserTables # {}

\* C32: when initialize() has returned after a pass that could not reach the
\* backend or failed with an unrecoverable error, it has returned False.
C32_InitializeFalseOnFailure ==
    (sync_pc = "done" /\ MigrationFailed) => initialized = "False"

\* C33: a call that has returned without an error for a statement that
\* modifies data (any statement but a SELECT) has committed it on its
\* connection.
C33_SuccessfulChangeCommitted ==
    (bridge_pc = "done" /\ bridge_err = "none" /\ ~IsSelect(query)) => committed


\* The table name and the name of the first column of a CREATE TABLE
\* statement that has a column list.
NamesOf(q) ==
    LET w == Words(upper(q))
        n == IF HasIfNotExists(q) THEN 6 ELSE 3
    IN  <<w[n], w[n + 1]>>

\* C38: when the conversion is given a CREATE TABLE statement with a column
\* list, its output has the same table name and the same column name, also
\* when a name contains BLOB or AUTOINCREMENT.
C38_ConversionKeepsNames ==
    (conv.called /\ conv.out # <<>> /\ IsCreateTable(conv.sql)
        /\ Len(Words(conv.sql)) >= 5) =>
        NamesOf(conv.out) = NamesOf(conv.sql)


\* C31: once bridge.close() has returned, the bridge's own pool and the
\* interface's pool are both closed, and no statement has obtained a
\* connection since.
C31_CloseClosesBothPools ==
    close_called => (own_closed /\ closed /\ ~late)

\* C34: the pool the bridge's statements run through has the capacity the
\* bridge was constructed with.
C34_StatementPoolHasConfiguredSize == pool_size = connection_pool_size

\* C35: no backend statement of the bridge runs on a connection opened
\* outside the pools, and the bridge never has more backend connections open
\* than the pool size it was constructed with.
C35_OnlyPooledConnections ==
    /\ direct = 0
    /\ OpenConnections <= connection_pool_size

\* The translation of caller t's statement raised.
TranslateFailed(t) == err[t] = "translate:IndexError"

\* C39: a call whose translation failed has ended without a connection, and
\* the step in which the translation failed left the pool as it was.
C39_TranslateBeforeAcquire ==
    [][\A t \in Callers :
          /\ TranslateFailed(t)' => (pc'[t] \in {"done", "idle"} /\ held'[t] = None)
          /\ (TranslateFailed(t)' /\ ~TranslateFailed(t)) => UNCHANGED poolVars]_vars

\* C39 witness: a translation has failed while another call holds a
\* connection of the pool.
C39_Witness ==
    \E t \in Callers : \E u \in Callers :
        /\ TranslateFailed(t) /\ pc[t] = "done"
        /\ held[u] # None /\ used # {}


==========================================================================
